---------------------------- MODULE Spec2Model ----------------------------
(***************************************************************************)
(* Model of the HWNP firmware container codec of                           *)
(* tools/firmware-editor/firmware_editor.py: HWNPFirmware._parse,          *)
(* set_product_ids, set_section_data, fix_signinfo, recalculate_crc and    *)
(* save, over a raw byte buffer.                                           *)
(*                                                                         *)
(* A byte is a number in 0..255.  A bytes / bytearray value is a sequence  *)
(* of bytes.  A Python str is a sequence of code points.  Python offsets   *)
(* are 0-based and slices are half open; Slice and SliceAssign below keep  *)
(* exactly that convention (including the clamping of out-of-range slice   *)
(* bounds), so offsets in this module read like the offsets in the source. *)
(***************************************************************************)
EXTENDS Integers, Sequences, FiniteSets, TLC

\* ------------------------------------------------------------------------
\* Constants of the format (firmware_editor.py lines 30-34)
\* ------------------------------------------------------------------------
\* b"HWNP"
HWNP_MAGIC == <<72, 87, 78, 80>>
SECT_DESC_START == 296
SECT_DESC_SIZE == 360
PID_OFFSET == 36
PID_MAX_LEN == SECT_DESC_START - PID_OFFSET

\* ------------------------------------------------------------------------
\* Python sequence primitives
\* ------------------------------------------------------------------------
Min(a, b) == IF a <= b THEN a ELSE b
Max(a, b) == IF a >= b THEN a ELSE b

\* s[a:b] for 0 <= a, with both bounds clamped to len(s)
Slice(s, a, b) ==
    LET hi == Min(b, Len(s))
    IN  IF a >= hi THEN <<>> ELSE SubSeq(s, a + 1, hi)

\* s[a:]
SliceFrom(s, a) == Slice(s, a, Len(s))

\* bytearray slice assignment  s[a:b] = v : the (clamped) range is removed
\* and v is put in its place, whatever the length of v
SliceAssign(s, a, b, v) ==
    LET lo == Min(a, Len(s))
        hi == Max(lo, Min(b, Len(s)))
    IN  Slice(s, 0, lo) \o v \o SliceFrom(s, hi)

\* b"\x00" * n
Zeros(n) == SubSeq([k \in 1..n |-> 0], 1, n)

\* the least element of a non-empty set of numbers
MinOf(S) == CHOOSE k \in S : \A j \in S : k <= j

\* the elements of a finite set of numbers in increasing order
SortedSeq(S) ==
    SubSeq([i \in 1..Cardinality(S) |->
                CHOOSE k \in S : Cardinality({j \in S : j < k}) = i - 1],
           1, Cardinality(S))

\* index of the first element of s equal to x at or after 0-based position
\* from, or -1 when there is none  (bytes.index / "x in s")
IndexFrom(s, x, from) ==
    LET hits == {k \in (from + 1)..Len(s) : s[k] = x}
    IN  IF hits = {} THEN -1 ELSE MinOf(hits) - 1

\* whether t occurs in s at 0-based position p
MatchAt(s, t, p) ==
    /\ p + Len(t) <= Len(s)
    /\ \A k \in 1..Len(t) : s[p + k] = t[k]

\* t in s   (substring test of str)
Contains(s, t) == \E p \in 0..(Len(s) - Len(t)) : MatchAt(s, t, p)

\* s.endswith(t)
EndsWith(s, t) == Len(s) >= Len(t) /\ MatchAt(s, t, Len(s) - Len(t))

\* s.find(t, p): the first 0-based position at or after p where t occurs
\* in s, or -1
FindFrom(s, t, p) ==
    LET hits == {q \in p..(Len(s) - Len(t)) : MatchAt(s, t, q)}
    IN  IF hits = {} THEN -1 ELSE MinOf(hits)

\* s.replace(t, "") : every non-overlapping occurrence of t, left to right
\* (t is not empty)
RECURSIVE RemoveAllFrom(_, _, _)
RemoveAllFrom(s, t, p) ==
    LET q == FindFrom(s, t, p)
    IN  IF q < 0 THEN SliceFrom(s, p)
        ELSE Slice(s, p, q) \o RemoveAllFrom(s, t, q + Len(t))

RemoveAll(s, t) == RemoveAllFrom(s, t, 0)

\* ------------------------------------------------------------------------
\* 32-bit arithmetic
\* ------------------------------------------------------------------------
RECURSIVE BitOp(_, _, _, _)
\* op is "xor" or "and"; n bits
BitOp(op, a, b, n) ==
    IF n = 0 THEN 0
    ELSE LET x == a % 2
             y == b % 2
             r == IF op = "xor" THEN (x + y) % 2 ELSE x * y
         IN  r + 2 * BitOp(op, a \div 2, b \div 2, n - 1)

\* Tables of the bitwise operations: the entry for (a, b) is
\* Table[a + 1][b + 1].  The table on nibbles is computed bit by bit, the
\* table on bytes from the table on nibbles.
NibbleTable(op) ==
    SubSeq([a \in 1..16 |-> SubSeq([b \in 1..16 |->
        BitOp(op, a - 1, b - 1, 4)], 1, 16)], 1, 16)
NibblesToByte(t, a, b) ==
    16 * t[(a \div 16) + 1][(b \div 16) + 1] + t[(a % 16) + 1][(b % 16) + 1]
ByteTable(t) ==
    SubSeq([a \in 1..256 |-> SubSeq([b \in 1..256 |->
        NibblesToByte(t, a - 1, b - 1)], 1, 256)], 1, 256)
Xor8Table == ByteTable(NibbleTable("xor"))
And8Table == ByteTable(NibbleTable("and"))

\* a ^ b on bytes
Xor8(a, b) == Xor8Table[a + 1][b + 1]

\* A 32-bit unsigned value is a pair <<high 16 bits, low 16 bits>>, each half
\* in 0..65535; every operation below is the operation on uint32.  t is the
\* byte table of the bitwise operation.
Bitwise16(t, a, b) ==
    t[(a % 256) + 1][(b % 256) + 1]
    + 256 * t[(a \div 256) + 1][(b \div 256) + 1]
Bitwise32(t, x, y) == <<Bitwise16(t, x[1], y[1]), Bitwise16(t, x[2], y[2])>>

Xor32(x, y) == Bitwise32(Xor8Table, x, y)
And32(x, y) == Bitwise32(And8Table, x, y)
Not32(x) == <<65535 - x[1], 65535 - x[2]>>
Add32(x, y) ==
    <<(x[1] + y[1] + ((x[2] + y[2]) \div 65536)) % 65536,
      (x[2] + y[2]) % 65536>>

\* Pow2Table[n + 1] = 2^n for n in 0..16
Pow2Table == <<1, 2, 4, 8, 16, 32, 64, 128, 256, 512, 1024, 2048, 4096,
               8192, 16384, 32768, 65536>>
\* the 16-bit halves <<hi, lo>> moved right by m < 16 bits (p = 2^m,
\* q = 2^(16-m)), the bits leaving hi entering lo and the bits leaving lo
\* entering hi when wrap holds
ShiftBy(hi, lo, p, q, wrap) ==
    <<(hi \div p) + (IF wrap THEN (lo % p) * q ELSE 0),
      (lo \div p) + (hi % p) * q>>
ShiftHalves(hi, lo, m, wrap) ==
    ShiftBy(hi, lo, Pow2Table[m + 1], Pow2Table[17 - m], wrap)
\* x >> n, for 0 <= n < 32
Shr32(x, n) ==
    ShiftHalves(IF n >= 16 THEN 0 ELSE x[1], IF n >= 16 THEN x[1] ELSE x[2],
                n % 16, FALSE)
\* x rotated right by n, for 0 <= n < 32
Rotr32(x, n) ==
    ShiftHalves(IF n >= 16 THEN x[2] ELSE x[1], IF n >= 16 THEN x[1] ELSE x[2],
                n % 16, TRUE)

\* struct.unpack("<I", b)[0] and struct.unpack(">I", b)[0] of a 4-byte slice
UnpackLE32(b) == <<b[3] + 256 * b[4], b[1] + 256 * b[2]>>
UnpackBE32(b) == <<b[2] + 256 * b[1], b[4] + 256 * b[3]>>
\* struct.pack("<I", v)
PackLE32(v) == <<v[2] % 256, v[2] \div 256, v[1] % 256, v[1] \div 256>>
\* struct.pack(">I", v)
PackBE32(v) == <<v[1] \div 256, v[1] % 256, v[2] \div 256, v[2] % 256>>

\* ------------------------------------------------------------------------
\* CRC-32 (binascii.crc32: reflected polynomial 0xEDB88320, initial value
\* and final xor 0xFFFFFFFF)
\* ------------------------------------------------------------------------
\* 0xEDB88320
CrcPoly == <<60856, 33568>>

RECURSIVE CrcTableEntry(_, _)
CrcTableEntry(c, k) ==
    IF k = 0 THEN c
    ELSE CrcTableEntry(IF c[2] % 2 = 1 THEN Xor32(CrcPoly, Shr32(c, 1))
                       ELSE Shr32(c, 1), k - 1)

\* CrcTable[n + 1] is the table entry of byte n, as its four bytes, least
\* significant first
CrcTable ==
    SubSeq([n \in 1..256 |-> PackLE32(CrcTableEntry(<<0, n - 1>>, 8))], 1, 256)

\* The register is held as its four bytes, least significant first:
\* c = table[(c ^ b) & 0xFF] ^ (c >> 8), t being the table entry
CrcMix(t, c) == <<Xor8(t[1], c[2]), Xor8(t[2], c[3]), Xor8(t[3], c[4]), t[4]>>
CrcStep(c, b) == CrcMix(CrcTable[Xor8(c[1], b) + 1], c)

\* the register after the bytes data[lo..hi] (1-based, inclusive), starting
\* from register c; the range is folded left half first, and the left
\* half's register is computed before the right half is entered
RECURSIVE CrcFold(_, _, _, _)
CrcFold(data, lo, hi, c) ==
    IF lo > hi THEN c
    ELSE IF lo = hi THEN CrcStep(c, data[lo])
    ELSE LET mid == (lo + hi) \div 2
             left == CrcFold(data, lo, mid, c)
         IN  IF left[1] >= 0 THEN CrcFold(data, mid + 1, hi, left) ELSE left

\* binascii.crc32(data) & 0xFFFFFFFF
CrcFinal(r) == UnpackLE32(<<255 - r[1], 255 - r[2], 255 - r[3], 255 - r[4]>>)
crc32(data) == CrcFinal(CrcFold(data, 1, Len(data), <<255, 255, 255, 255>>))

\* ------------------------------------------------------------------------
\* SHA-256 (hashlib.sha256(data).hexdigest(), FIPS 180-4)
\* ------------------------------------------------------------------------
Sha256K ==
    <<<<17034, 12184>>, <<28983, 17553>>, <<46528, 64463>>, <<59829, 56229>>,
      <<14678, 49755>>, <<23025, 4593>>, <<37439, 33444>>, <<43804, 24277>>,
      <<55303, 43672>>, <<4739, 23297>>, <<9265, 34238>>, <<21772, 32195>>,
      <<29374, 23924>>, <<32990, 45566>>, <<39900, 1703>>, <<49563, 61812>>,
      <<58523, 27073>>, <<61374, 18310>>, <<4033, 40390>>, <<9228, 41420>>,
      <<11753, 11375>>, <<19060, 33962>>, <<23728, 43484>>, <<30457, 35034>>,
      <<38974, 20818>>, <<43057, 50797>>, <<45059, 10184>>, <<48985, 32711>>,
      <<50912, 3059>>, <<54695, 37191>>, <<1738, 25425>>, <<5161, 10599>>,
      <<10167, 2693>>, <<11803, 8504>>, <<19756, 28156>>, <<21304, 3347>>,
      <<25866, 29524>>, <<30314, 2747>>, <<33218, 51502>>, <<37490, 11397>>,
      <<41663, 59553>>, <<43034, 26187>>, <<49739, 35696>>, <<51052, 20899>>,
      <<53650, 59417>>, <<54937, 1572>>, <<62478, 13701>>, <<4202, 41072>>,
      <<6564, 49430>>, <<7735, 27656>>, <<10056, 30540>>, <<13488, 48309>>,
      <<14620, 3251>>, <<20184, 43594>>, <<23452, 51791>>, <<26670, 28659>>,
      <<29839, 33518>>, <<30885, 25455>>, <<33992, 30740>>, <<36039, 520>>,
      <<37054, 65530>>, <<42064, 27883>>, <<48889, 41975>>, <<50801, 30962>>>>

Sha256H0 ==
    <<<<27145, 58983>>, <<47975, 44677>>, <<15470, 62322>>, <<42319, 62778>>,
      <<20750, 21119>>, <<39685, 26764>>, <<8067, 55723>>, <<23520, 52505>>>>

Xor3(a, b, c) == Xor32(Xor32(a, b), c)
BigSigma0(v) == Xor3(Rotr32(v, 2), Rotr32(v, 13), Rotr32(v, 22))
BigSigma1(v) == Xor3(Rotr32(v, 6), Rotr32(v, 11), Rotr32(v, 25))
SmallSigma0(v) == Xor3(Rotr32(v, 7), Rotr32(v, 18), Shr32(v, 3))
SmallSigma1(v) == Xor3(Rotr32(v, 17), Rotr32(v, 19), Shr32(v, 10))
Ch(e, f, g) == Xor32(And32(e, f), And32(Not32(e), g))
Maj(a, b, c) == Xor3(And32(a, b), And32(a, c), And32(b, c))

\* the message followed by 0x80, zero bytes up to 56 mod 64, and the bit
\* length as a 64-bit big-endian number
Sha256PadOf(data, n) ==
    data \o <<128>> \o Zeros((119 - (n % 64)) % 64) \o <<0, 0, 0, 0>>
         \o PackBE32(<<(n * 8) \div 65536, (n * 8) % 65536>>)
Sha256Pad(data) == Sha256PadOf(data, Len(data))

\* the 64-word message schedule of one block, from its 16 message words
RECURSIVE Sha256Schedule(_)
Sha256Schedule(w) ==
    IF Len(w) = 64 THEN w
    ELSE Sha256Schedule(Append(w,
             Add32(Add32(SmallSigma1(w[Len(w) - 1]), w[Len(w) - 6]),
                   Add32(SmallSigma0(w[Len(w) - 14]), w[Len(w) - 15]))))

\* one round: the working variables s = a..h after T1 and T2
Sha256Step(s, t1, t2) ==
    <<Add32(t1, t2), s[1], s[2], s[3], Add32(s[4], t1), s[5], s[6], s[7]>>
Sha256T1(s, w, t) ==
    Add32(Add32(Add32(s[8], BigSigma1(s[5])),
                Add32(Ch(s[5], s[6], s[7]), Sha256K[t])), w[t])
Sha256T2(s) == Add32(BigSigma0(s[1]), Maj(s[1], s[2], s[3]))

\* rounds t..64 of the compression function on working variables s = a..h
\* (the variables of a round are computed before the next round is entered)
RECURSIVE Sha256Rounds(_, _, _)
Sha256Rounds(s, w, t) ==
    IF s[1][1] < 0 \/ t > 64 THEN s
    ELSE Sha256Rounds(Sha256Step(s, Sha256T1(s, w, t), Sha256T2(s)), w, t + 1)

\* the 16 big-endian words of the block at 0-based byte offset off
Sha256Words(msg, off) ==
    SubSeq([k \in 1..16 |->
                UnpackBE32(Slice(msg, off + 4 * (k - 1), off + 4 * k))], 1, 16)

\* the hash value h after one more block: h + the working variables s
Sha256Sum(h, s) == SubSeq([k \in 1..8 |-> Add32(h[k], s[k])], 1, 8)
Sha256Compress(h, w16) == Sha256Sum(h, Sha256Rounds(h, Sha256Schedule(w16), 1))

\* the hash value after the blocks of msg from 0-based byte offset off on
RECURSIVE Sha256Blocks(_, _, _)
Sha256Blocks(h, msg, off) ==
    IF h[1][1] < 0 \/ off >= Len(msg) THEN h
    ELSE Sha256Blocks(Sha256Compress(h, Sha256Words(msg, off)), msg, off + 64)

\* "0123456789abcdef"
HexDigits == <<48, 49, 50, 51, 52, 53, 54, 55, 56, 57,
               97, 98, 99, 100, 101, 102>>

\* the 2 lowercase hex characters of a byte
HexByte(b) == <<HexDigits[(b \div 16) + 1], HexDigits[(b % 16) + 1]>>
\* the 8 lowercase hex characters of a 32-bit word
HexWord(v) ==
    HexByte(v[1] \div 256) \o HexByte(v[1] % 256)
    \o HexByte(v[2] \div 256) \o HexByte(v[2] % 256)
\* the 64 lowercase hex characters of a hash value
RECURSIVE HexWords(_)
HexWords(h) == IF h = <<>> THEN <<>> ELSE HexWord(Head(h)) \o HexWords(Tail(h))

\* hashlib.sha256(data).hexdigest(), as its 64 ASCII characters
sha256_hexdigest(data) == HexWords(Sha256Blocks(Sha256H0, Sha256Pad(data), 0))

\* ------------------------------------------------------------------------
\* Text: decoding, splitting, joining
\* ------------------------------------------------------------------------
\* U+FFFD, what errors="replace" puts for a byte that is not ASCII
ReplacementChar == 65533
\* "|", "\n", "/"
Pipe == 124
Newline == 10
Slash == 47

\* b.decode("ascii", errors="replace"): one code point per byte
AsciiDecodeReplace(b) ==
    SubSeq([k \in 1..Len(b) |-> IF b[k] < 128 THEN b[k] ELSE ReplacementChar],
           1, Len(b))

IsCont(b, k) == k <= Len(b) /\ b[k] >= 128 /\ b[k] <= 191

\* the number of bytes of the well-formed UTF-8 sequence that starts at
\* b[k] (1-based), or 0 when no well-formed sequence starts there
Utf8SeqLen(b, k) ==
    LET c == b[k]
    IN  IF c < 128 THEN 1
        ELSE IF c >= 194 /\ c <= 223 THEN (IF IsCont(b, k + 1) THEN 2 ELSE 0)
        ELSE IF c >= 224 /\ c <= 239
             THEN (IF /\ IsCont(b, k + 1) /\ IsCont(b, k + 2)
                      /\ (c = 224 => b[k + 1] >= 160)
                      /\ (c = 237 => b[k + 1] <= 159)
                   THEN 3 ELSE 0)
        ELSE IF c >= 240 /\ c <= 244
             THEN (IF /\ IsCont(b, k + 1) /\ IsCont(b, k + 2) /\ IsCont(b, k + 3)
                      /\ (c = 240 => b[k + 1] >= 144)
                      /\ (c = 244 => b[k + 1] <= 143)
                   THEN 4 ELSE 0)
        ELSE 0

\* the code point of the well-formed sequence of n bytes at b[k]
Utf8CodePoint(b, k, n) ==
    IF n = 1 THEN b[k]
    ELSE IF n = 2 THEN (b[k] - 192) * 64 + (b[k + 1] - 128)
    ELSE IF n = 3 THEN (b[k] - 224) * 4096 + (b[k + 1] - 128) * 64
                       + (b[k + 2] - 128)
    ELSE (b[k] - 240) * 262144 + (b[k + 1] - 128) * 4096
         + (b[k + 2] - 128) * 64 + (b[k + 3] - 128)

\* the bytes b[lo..hi] (1-based, inclusive) decoded one sequence after the
\* other: <<str>> when they decode, <<>> when a byte starts no well-formed
\* sequence
RECURSIVE Utf8DecodeRun(_, _, _, _)
Utf8DecodeRun(b, k, hi, acc) ==
    IF k > hi THEN <<acc>>
    ELSE LET n == Utf8SeqLen(b, k)
         IN  IF n = 0 \/ k + n - 1 > hi THEN <<>>
             ELSE Utf8DecodeRun(b, k + n, hi,
                                Append(acc, Utf8CodePoint(b, k, n)))

\* the same for a long range: the range is cut at a byte that starts a
\* sequence (one that is not a continuation byte) and the two parts are
\* decoded on their own; four continuation bytes in a row decode nowhere
RECURSIVE Utf8DecodeRange(_, _, _)
Utf8DecodeRange(b, lo, hi) ==
    IF hi - lo < 8 THEN Utf8DecodeRun(b, lo, hi, <<>>)
    ELSE LET mid == (lo + hi) \div 2
             starts == {k \in (mid + 1)..(mid + 4) : ~IsCont(b, k)}
         IN  IF starts = {} THEN <<>>
             ELSE LET m == MinOf(starts)
                      left == Utf8DecodeRange(b, lo, m - 1)
                      right == Utf8DecodeRange(b, m, hi)
                  IN  IF left = <<>> \/ right = <<>> THEN <<>>
                      ELSE <<left[1] \o right[1]>>

\* b.decode("utf-8"): <<str>> when the bytes decode, <<>> when the decoder
\* raises UnicodeDecodeError
Utf8Decode(b) == Utf8DecodeRange(b, 1, Len(b))

\* s.split(sep): the fragments between the separators, empty ones included
Split(s, sep) ==
    LET seps == SortedSeq({k \in 1..Len(s) : s[k] = sep})
        m == Len(seps)
    IN  SubSeq([i \in 1..(m + 1) |->
                    Slice(s, IF i = 1 THEN 0 ELSE seps[i - 1],
                             IF i = m + 1 THEN Len(s) ELSE seps[i] - 1)],
               1, m + 1)

\* [x for x in l if x]
NotEmpty(x) == x # <<>>
DropEmpty(l) == SelectSeq(l, NotEmpty)

\* "|".join(l)
RECURSIVE Join(_, _)
Join(l, sep) ==
    IF l = <<>> THEN <<>>
    ELSE IF Len(l) = 1 THEN l[1]
    ELSE l[1] \o <<sep>> \o Join(Tail(l), sep)

\* whether every character of a str can be encoded as ASCII
IsAscii(s) == \A k \in 1..Len(s) : s[k] < 128

\* str.isspace() of one character, which is also what \s matches
IsSpace(c) == c \in {9, 10, 11, 12, 13, 28, 29, 30, 31, 32, 133, 160}

\* s.strip()
RECURSIVE Strip(_)
Strip(s) ==
    IF s = <<>> THEN s
    ELSE IF IsSpace(s[1]) THEN Strip(Tail(s))
    ELSE IF IsSpace(s[Len(s)]) THEN Strip(SubSeq(s, 1, Len(s) - 1))
    ELSE s

\* a fixed-width field that ends at its first zero byte:
\* f[:f.index(0) if 0 in f else width].decode("ascii", errors="replace")
CString(f) ==
    LET z == IndexFrom(f, 0, 0)
    IN  AsciiDecodeReplace(IF z >= 0 THEN Slice(f, 0, z) ELSE f)

\* the number a uint32 stands for (sizes below 2^31)
ToInt(w) == w[1] * 65536 + w[2]

\* ------------------------------------------------------------------------
\* HWNPFirmware._parse
\* ------------------------------------------------------------------------
\* "file:", ".sh", ".xml", "signinfo"
FilePrefix == <<102, 105, 108, 101, 58>>
ExtSh == <<46, 115, 104>>
ExtXml == <<46, 120, 109, 108>>
SigninfoMarker == <<115, 105, 103, 110, 105, 110, 102, 111>>

\* "0123456789ABCDEF"
HexDigitsUpper == <<48, 49, 50, 51, 52, 53, 54, 55, 56, 57,
                    65, 66, 67, 68, 69, 70>>

\* " ".join(f"0x{b:02X}" for b in sect_data)
RECURSIVE FlagText(_)
FlagText(d) ==
    IF d = <<>> THEN <<>>
    ELSE LET one == <<48, 120, HexDigitsUpper[(d[1] \div 16) + 1],
                      HexDigitsUpper[(d[1] % 16) + 1]>>
         IN  IF Len(d) = 1 THEN one ELSE one \o <<32>> \o FlagText(Tail(d))

\* all(b == 0 or 0x09 <= b <= 0x0D or 0x20 <= b <= 0x7E for b in sect_data)
IsTextBytes(d) ==
    \A k \in 1..Len(d) :
        d[k] = 0 \/ (d[k] >= 9 /\ d[k] <= 13) \/ (d[k] >= 32 /\ d[k] <= 126)

\* path.replace("file:", "")
FileNameOf(path) == RemoveAll(path, FilePrefix)

\* the classification with the extension's type kept when the decode fails
ClassifyKeepsExtension(file_name, data_size, sect_data, decoded) ==
    IF EndsWith(file_name, ExtSh)
    THEN [content_type |-> "shell", text_content |-> decoded]
    ELSE IF EndsWith(file_name, ExtXml)
    THEN [content_type |-> "xml", text_content |-> decoded]
    ELSE IF data_size <= 4
    THEN [content_type |-> "flag", text_content |-> <<FlagText(sect_data)>>]
    ELSE IF IsTextBytes(sect_data) /\ data_size < 65536
    THEN [content_type |-> "text", text_content |-> decoded]
    ELSE [content_type |-> "binary", text_content |-> <<>>]

\* the classification with the size rule tried before the extensions
ClassifySizeFirst(file_name, data_size, sect_data, decoded) ==
    IF data_size <= 4
    THEN [content_type |-> "flag", text_content |-> <<FlagText(sect_data)>>]
    ELSE IF EndsWith(file_name, ExtSh)
    THEN [content_type |-> IF decoded = <<>> THEN "binary" ELSE "shell",
          text_content |-> decoded]
    ELSE IF EndsWith(file_name, ExtXml)
    THEN [content_type |-> IF decoded = <<>> THEN "binary" ELSE "xml",
          text_content |-> decoded]
    ELSE IF IsTextBytes(sect_data) /\ data_size < 65536
    THEN [content_type |-> "text", text_content |-> decoded]
    ELSE [content_type |-> "binary", text_content |-> <<>>]

\* the content type and the decoded text of a section (lines 127-154), from
\* its file name, its size, its bytes and what sect_data.decode("utf-8")
\* gives; the text is <<>> for None and <<str>> for a str
ClassifyDecoded(file_name, data_size, sect_data, decoded) ==
    IF EndsWith(file_name, ExtSh)
    THEN [content_type |-> IF decoded = <<>> THEN "binary" ELSE "shell",
          text_content |-> decoded]
    ELSE IF EndsWith(file_name, ExtXml)
    THEN [content_type |-> IF decoded = <<>> THEN "binary" ELSE "xml",
          text_content |-> decoded]
    ELSE IF data_size <= 4
    THEN [content_type |-> "flag", text_content |-> <<FlagText(sect_data)>>]
    ELSE IF IsTextBytes(sect_data) /\ data_size < 65536
    THEN [content_type |-> "text", text_content |-> decoded]
    ELSE [content_type |-> "binary", text_content |-> <<>>]

Classify(path, data_size, sect_data) ==
    ClassifyDecoded(FileNameOf(path), data_size, sect_data,
                    Utf8Decode(sect_data))

\* the fields of one 360-byte descriptor desc (lines 108-122): item crc,
\* stored offset, size, path[256], label[92]
ReadDescriptor(desc) ==
    [item_crc |-> UnpackLE32(Slice(desc, 0, 4)),
     stored_offset |-> UnpackLE32(Slice(desc, 4, 8)),
     data_size |-> ToInt(UnpackLE32(Slice(desc, 8, 12))),
     path |-> CString(Slice(desc, 12, 12 + 256)),
     label |-> CString(Slice(desc, 268, 268 + 92)),
     desc_raw |-> desc]

\* the HWNPSection object (lines 54-67, 124-161) of descriptor fields d,
\* payload bytes sect_data and classification cls
SectionOf(i, data_offset, d, sect_data, cls) ==
    [index |-> i,
     item_crc |-> d.item_crc,
     stored_offset |-> d.stored_offset,
     data_offset |-> data_offset,
     data_size |-> d.data_size,
     path |-> d.path,
     file_name |-> FileNameOf(d.path),
     label |-> d.label,
     data |-> sect_data,
     content_type |-> cls.content_type,
     text_content |-> cls.text_content,
     desc_raw |-> d.desc_raw]

SectionWith(i, data_offset, d, sect_data) ==
    SectionOf(i, data_offset, d, sect_data,
              Classify(d.path, d.data_size, sect_data))

SectionAt(data, i, data_offset, d) ==
    SectionWith(i, data_offset, d,
                Slice(data, data_offset, data_offset + d.data_size))

\* one HWNPSection, from the descriptor of index i and the running
\* data_offset (lines 107-161)
ParseSection(data, i, data_offset) ==
    SectionAt(data, i, data_offset,
              ReadDescriptor(Slice(data, SECT_DESC_START + i * SECT_DESC_SIZE,
                                   SECT_DESC_START + (i + 1) * SECT_DESC_SIZE)))

\* the running offset rounded down to a multiple of 4
RoundDown4(end) == end - (end % 4)

\* data_offset += data_size, then rounded up to a multiple of 4
\* (lines 163-165)
RoundUp4(end) == IF end % 4 # 0 THEN end + (4 - (end % 4)) ELSE end
\* the running offset advanced without the round-up to a multiple of 4
NextDataOffsetUnaligned(data_offset, data_size) == data_offset + data_size

NextDataOffset(data_offset, data_size) == RoundUp4(data_offset + data_size)

\* the data_size field of descriptor i
DataSizeAt(data, i) ==
    ToInt(UnpackLE32(Slice(data, SECT_DESC_START + i * SECT_DESC_SIZE + 8,
                           SECT_DESC_START + i * SECT_DESC_SIZE + 12)))

\* the loop over the descriptors (lines 106-165) from index i on: the
\* sections, or "struct.error" when a descriptor's three leading fields
\* are not all inside the buffer (struct.unpack needs 4 bytes)
RECURSIVE ParseSections(_, _, _, _, _)
ParseSections(data, i, item_num, data_offset, acc) ==
    IF i >= item_num THEN [err |-> "", sections |-> acc]
    ELSE IF Len(data) < SECT_DESC_START + i * SECT_DESC_SIZE + 12
    THEN [err |-> "struct.error", sections |-> acc]
    ELSE ParseSections(data, i + 1, item_num,
                       NextDataOffset(data_offset, DataSizeAt(data, i)),
                       Append(acc, ParseSection(data, i, data_offset)))

\* the end of the identifier string taken at the first null byte from
\* 0x24 on, wherever it lies
PidEndAnyNull(data, window) ==
    IF IndexFrom(data, 0, PID_OFFSET) >= 0 THEN IndexFrom(data, 0, PID_OFFSET)
    ELSE Len(data)

\* the device-identifier list (lines 93-96)
PidEnd(data, window) ==
    IF IndexFrom(window, 0, 0) >= 0 THEN IndexFrom(data, 0, PID_OFFSET)
    ELSE PID_OFFSET + PID_MAX_LEN
ParseProductIds(data) ==
    DropEmpty(Split(AsciiDecodeReplace(
        Slice(data, PID_OFFSET,
              PidEnd(data, Slice(data, PID_OFFSET, PID_OFFSET + PID_MAX_LEN)))),
        Pipe))

\* The image that construction leaves, as a record of the object's
\* attributes; err is "" when _parse returns, and the name of the exception
\* when it raises (no object then exists and the other fields mean nothing).
EmptyImage(data, err) ==
    [err |-> err, raw |-> data,
     header |-> [payload_size |-> <<0, 0>>, head_len |-> <<0, 0>>,
                 file_crc |-> <<0, 0>>, item_num |-> 0,
                 version |-> <<0, 0>>, item_desc_size |-> <<0, 0>>],
     head_crc |-> <<0, 0>>, computed_crc |-> <<0, 0>>, crc_valid |-> FALSE,
     product_ids |-> <<>>, sections |-> <<>>]

\* the object _parse leaves (lines 85-100 and the section list), or the
\* exception the section loop raised
ParsedImage(data, item_num, head_crc, computed_crc, secs) ==
    IF secs.err # "" THEN EmptyImage(data, secs.err)
    ELSE [err |-> "", raw |-> data,
          header |-> [payload_size |-> UnpackBE32(Slice(data, 4, 8)),
                      head_len |-> UnpackLE32(Slice(data, 12, 16)),
                      file_crc |-> UnpackLE32(Slice(data, 16, 20)),
                      item_num |-> item_num,
                      version |-> UnpackLE32(Slice(data, 24, 28)),
                      item_desc_size |-> UnpackLE32(Slice(data, 28, 32))],
          head_crc |-> head_crc,
          computed_crc |-> computed_crc,
          crc_valid |-> (computed_crc = head_crc),
          product_ids |-> ParseProductIds(data),
          sections |-> secs.sections]

ParseItems(data, item_num) ==
    ParsedImage(data, item_num, UnpackLE32(Slice(data, 8, 12)),
                crc32(SliceFrom(data, 12)),
                ParseSections(data, 0, item_num,
                              SECT_DESC_START + item_num * SECT_DESC_SIZE, <<>>))

\* _parse with the fixed header decoded before the magic is compared
ParseHeaderFirst(data) ==
    IF Len(data) < 32 THEN EmptyImage(data, "struct.error")
    ELSE IF Slice(data, 0, 4) # HWNP_MAGIC THEN EmptyImage(data, "ValueError")
    ELSE ParseItems(data, UnpackLE32(Slice(data, 20, 24))[2] % 256)

\* _parse with the item count taken from the low sixteen bits of the
\* field at 0x14
ParseWideCount(data) ==
    IF Slice(data, 0, 4) # HWNP_MAGIC THEN EmptyImage(data, "ValueError")
    ELSE IF Len(data) < 32 THEN EmptyImage(data, "struct.error")
    ELSE ParseItems(data, UnpackLE32(Slice(data, 20, 24))[2])

\* HWNPFirmware._parse (lines 80-165)
Parse(data) ==
    IF Slice(data, 0, 4) # HWNP_MAGIC THEN EmptyImage(data, "ValueError")
    ELSE IF Len(data) < 32 THEN EmptyImage(data, "struct.error")
    ELSE ParseItems(data, UnpackLE32(Slice(data, 20, 24))[2] % 256)

\* ------------------------------------------------------------------------
\* The mutation engine.  Each operation takes the image and returns
\* [err, fw]: err is "" when the call returns and the exception's name when
\* it raises; fw is the image the call leaves.
\* ------------------------------------------------------------------------
\* "|".join(ids) + "|"
EncodeIds(ids) == Join(ids, Pipe) \o <<Pipe>>

\* the window cleared and then filled with pid_str (lines 173-174), and the
\* cached list replaced (line 175)
WriteIds(fw, ids, pid_str) ==
    [fw EXCEPT
        !.raw = SliceAssign(
                    SliceAssign(fw.raw, PID_OFFSET, PID_OFFSET + PID_MAX_LEN,
                                Zeros(PID_MAX_LEN)),
                    PID_OFFSET, PID_OFFSET + Len(pid_str), pid_str),
        !.product_ids = ids]

\* set_product_ids with the window filled but not cleared first
SetIdsOverOldWindow(fw, ids) ==
    IF ~IsAscii(EncodeIds(ids)) THEN [err |-> "UnicodeEncodeError", fw |-> fw]
    ELSE IF Len(EncodeIds(ids)) > PID_MAX_LEN
    THEN [err |-> "ValueError", fw |-> fw]
    ELSE [err |-> "",
          fw |-> [fw EXCEPT
                    !.raw = SliceAssign(fw.raw, PID_OFFSET,
                                PID_OFFSET + Len(EncodeIds(ids)), EncodeIds(ids)),
                    !.product_ids = ids]]

\* set_product_ids with the capacity test taken as >= instead of >
SetIdsBelowCapacity(fw, ids) ==
    IF ~IsAscii(EncodeIds(ids)) THEN [err |-> "UnicodeEncodeError", fw |-> fw]
    ELSE IF Len(EncodeIds(ids)) >= PID_MAX_LEN
    THEN [err |-> "ValueError", fw |-> fw]
    ELSE [err |-> "", fw |-> WriteIds(fw, ids, EncodeIds(ids))]

\* HWNPFirmware.set_product_ids (lines 167-175)
set_product_ids(fw, ids) ==
    IF ~IsAscii(EncodeIds(ids)) THEN [err |-> "UnicodeEncodeError", fw |-> fw]
    ELSE IF Len(EncodeIds(ids)) > PID_MAX_LEN
    THEN [err |-> "ValueError", fw |-> fw]
    ELSE [err |-> "", fw |-> WriteIds(fw, ids, EncodeIds(ids))]

\* the refreshed text view of set_section_data (lines 191-195): replaced
\* only when the type is text-like and the new bytes decode
RefreshText(section, new_data) ==
    LET decoded == Utf8Decode(new_data)
    IN  IF section.content_type \in {"xml", "shell", "text"} /\ decoded # <<>>
        THEN decoded
        ELSE section.text_content

\* the 1-based position of sections[idx], idx indexing the list as Python
\* does: 0..n-1 from the front, -1..-n from the back; 0 when out of range
ListIndex(n, idx) ==
    IF idx >= 0 /\ idx < n THEN idx + 1
    ELSE IF idx < 0 /\ n + idx >= 0 THEN n + idx + 1
    ELSE 0

\* new_data right-padded with zero bytes to data_size (lines 183-184)
Padded(new_data, data_size) == new_data \o Zeros(data_size - Len(new_data))

\* the object after padded has been written to the slot of section k and to
\* the section (lines 186-195)
WriteSection(fw, k, padded) ==
    [fw EXCEPT
        !.raw = SliceAssign(fw.raw, fw.sections[k].data_offset,
                    fw.sections[k].data_offset + fw.sections[k].data_size,
                    padded),
        !.sections[k].data = padded,
        !.sections[k].text_content = RefreshText(fw.sections[k], padded)]

SetSection(fw, k, new_data) ==
    IF k = 0 THEN [err |-> "IndexError", fw |-> fw]
    ELSE IF Len(new_data) > fw.sections[k].data_size
    THEN [err |-> "ValueError", fw |-> fw]
    ELSE [err |-> "",
          fw |-> WriteSection(fw, k, Padded(new_data, fw.sections[k].data_size))]

\* set_section_data with the section's payload stored before the size test
SetSectionStoreFirst(fw, k, new_data) ==
    IF k = 0 THEN [err |-> "IndexError", fw |-> fw]
    ELSE IF Len(new_data) > fw.sections[k].data_size
    THEN [err |-> "ValueError", fw |-> [fw EXCEPT !.sections[k].data = new_data]]
    ELSE [err |-> "",
          fw |-> WriteSection(fw, k, Padded(new_data, fw.sections[k].data_size))]

SetSectionDataStoreFirst(fw, idx, new_data) ==
    SetSectionStoreFirst(fw, ListIndex(Len(fw.sections), idx), new_data)

\* HWNPFirmware.set_section_data (lines 177-195)
set_section_data(fw, idx, new_data) ==
    SetSection(fw, ListIndex(Len(fw.sections), idx), new_data)

\* ------------------------------------------------------------------------
\* HWNPFirmware.fix_signinfo (lines 197-232)
\* ------------------------------------------------------------------------
IsHexLower(c) == (c >= 48 /\ c <= 57) \/ (c >= 97 /\ c <= 102)

\* the first 0-based position at or after p whose character is not
\* whitespace, or Len(text)
RECURSIVE SkipSpace(_, _)
SkipSpace(text, p) ==
    IF p < Len(text) /\ IsSpace(text[p + 1]) THEN SkipSpace(text, p + 1) ELSE p

\* the 0-based end of the line that holds position p: the position of the
\* next "\n" at or after p, or Len(text)
LineEnd(text, p) ==
    LET nl == IndexFrom(text, Newline, p)
    IN  IF nl >= 0 THEN nl ELSE Len(text)

\* whether ([0-9a-f]{64})\s+(/[^\n]+) matches at 0-based position p
MatchesAt(text, p) ==
    /\ p + 64 < Len(text)
    /\ \A k \in 1..64 : IsHexLower(text[p + k])
    /\ LET q == SkipSpace(text, p + 64)
       IN  /\ q > p + 64
           /\ q + 1 < Len(text)
           /\ text[q + 1] = Slash
           /\ text[q + 2] # Newline

\* re.finditer over text from position p: the matches left to right, none
\* overlapping, each as [start, path]: m.start(1) and m.group(2)
RECURSIVE FindLines(_, _)
FindLines(text, p) ==
    LET hits == {h \in p..(Len(text) - 67) : MatchesAt(text, h)}
    IN  IF hits = {} THEN <<>>
        ELSE LET h == MinOf(hits)
                 q == SkipSpace(text, h + 64)
                 e == LineEnd(text, q + 1)
             IN  <<[start |-> h, path |-> Slice(text, q, e)]>>
                 \o FindLines(text, e)

\* the 1-based index of the first section whose path, "file:" removed,
\* equals file_path, or 0 (the inner loop, lines 221-229)
SectionByPath(sections, file_path) ==
    LET hits == {k \in 1..Len(sections) :
                    FileNameOf(sections[k].path) = file_path}
    IN  IF hits = {} THEN 0 ELSE MinOf(hits)

\* PatchLine with the digest taken over the section less its last byte
PatchLineShortDigest(buf, sections, j, start) ==
    IF j = 0 THEN buf
    ELSE SliceAssign(buf, start, start + 64,
             sha256_hexdigest(Slice(buf, sections[j].data_offset,
                 sections[j].data_offset + sections[j].data_size - 1)))

\* the buffer after the hash entry at 0-based offset start has been
\* rewritten for section j (lines 223-228); j = 0 when no section has the
\* line's path, and nothing is written then
PatchLine(buf, sections, j, start) ==
    IF j = 0 THEN buf
    ELSE SliceAssign(buf, start, start + 64,
             sha256_hexdigest(Slice(buf, sections[j].data_offset,
                 sections[j].data_offset + sections[j].data_size)))

\* the buffer after the hash entries of lines k.. have been rewritten
\* (lines 219-229)
RECURSIVE PatchLines(_, _, _, _, _)
PatchLines(buf, sections, sig_off, lines, k) ==
    IF k > Len(lines) THEN buf
    ELSE PatchLines(PatchLine(buf, sections,
                              SectionByPath(sections, Strip(lines[k].path)),
                              sig_off + lines[k].start),
                    sections, sig_off, lines, k + 1)

\* the 1-based index of the first section whose path contains "signinfo",
\* or 0 (lines 207-209 and the break of line 232)
SigninfoIndex(sections) ==
    LET hits == {k \in 1..Len(sections) :
                    Contains(sections[k].path, SigninfoMarker)}
    IN  IF hits = {} THEN 0 ELSE MinOf(hits)

\* the object once the buffer is buf: the manifest section's data is read
\* back from it (line 231)
WithManifest(fw, k, buf) ==
    [fw EXCEPT !.raw = buf,
               !.sections[k].data =
                   Slice(buf, fw.sections[k].data_offset,
                         fw.sections[k].data_offset + fw.sections[k].data_size)]

\* the manifest of section k rewritten in the buffer zeroed, whose header is
\* already cleared (lines 217-229)
PatchManifest(fw, k, zeroed) ==
    PatchLines(zeroed, fw.sections, fw.sections[k].data_offset,
               FindLines(AsciiDecodeReplace(
                   Slice(zeroed, fw.sections[k].data_offset,
                         fw.sections[k].data_offset + fw.sections[k].data_size)),
                   0), 1)

\* FixSection with 59 bytes of the header cleared
FixSectionShortHeader(fw, k) ==
    WithManifest(fw, k,
        PatchManifest(fw, k,
            SliceAssign(fw.raw, fw.sections[k].data_offset,
                        fw.sections[k].data_offset + 59, Zeros(59))))

\* FixSection with the header cleared at the descriptor's stored offset
FixSectionAtStoredOffset(fw, k) ==
    WithManifest(fw, k,
        PatchManifest(fw, k,
            SliceAssign(fw.raw, ToInt(fw.sections[k].stored_offset),
                        ToInt(fw.sections[k].stored_offset) + 60, Zeros(60))))

\* the header of the manifest section k cleared (line 215) and its hash
\* lines rewritten
FixSection(fw, k) ==
    WithManifest(fw, k,
        PatchManifest(fw, k,
            SliceAssign(fw.raw, fw.sections[k].data_offset,
                        fw.sections[k].data_offset + 60, Zeros(60))))

FixFirst(fw, k) == IF k = 0 THEN fw ELSE FixSection(fw, k)

fix_signinfo(fw) == FixFirst(fw, SigninfoIndex(fw.sections))

\* HWNPFirmware.recalculate_crc (lines 234-240)
StoreCrc(fw, new_crc) ==
    [fw EXCEPT !.raw = SliceAssign(fw.raw, 8, 12, PackLE32(new_crc)),
               !.head_crc = new_crc,
               !.computed_crc = new_crc,
               !.crc_valid = TRUE]
\* recalculate_crc with the checksum taken from the checksum field on
RecalculateFromField(fw) == StoreCrc(fw, crc32(SliceFrom(fw.raw, 8)))
recalculate_crc(fw) == StoreCrc(fw, crc32(SliceFrom(fw.raw, 12)))

\* save with the checksum computed before the manifest is patched
SaveChecksumFirst(fw) == fix_signinfo(recalculate_crc(fw))

\* the in-memory part of HWNPFirmware.save (lines 244-245): the image whose
\* buffer is then written
save_transform(fw) == recalculate_crc(fix_signinfo(fw))

\* ------------------------------------------------------------------------
\* Image files the editor is opened on, laid out as the module docstring
\* (lines 6-17) and the descriptor reads of _parse (lines 107-122) describe
\* ------------------------------------------------------------------------
\* b followed by zero bytes up to n bytes
PadTo(b, n) == b \o Zeros(n - Len(b))

\* one 360-byte descriptor: item crc, stored offset, size, path[256],
\* label[92]
Descriptor(d) ==
    PackLE32(d.item_crc) \o PackLE32(d.stored_offset)
    \o PackLE32(<<0, Len(d.data)>>) \o PadTo(d.path, 256) \o PadTo(d.label, 92)

RECURSIVE DescriptorTable(_)
DescriptorTable(ds) ==
    IF ds = <<>> THEN <<>> ELSE Descriptor(Head(ds)) \o DescriptorTable(Tail(ds))

\* the payloads in descriptor order, each but the last followed by the
\* zero bytes that bring the next one to a multiple of 4
RECURSIVE DataRegion(_)
DataRegion(ds) ==
    IF ds = <<>> THEN <<>>
    ELSE IF Len(ds) = 1 THEN ds[1].data
    ELSE PadTo(ds[1].data, 4 * ((Len(ds[1].data) + 3) \div 4))
         \o DataRegion(Tail(ds))

\* the file whose bytes from 0x0C on are body
MkFile(body, good_crc) ==
    HWNP_MAGIC \o PackBE32(<<0, Len(body)>>)
    \o PackLE32(IF good_crc THEN crc32(body) ELSE <<57005, 48879>>) \o body

\* a whole file: pids is the identifier window's text, item_field the four
\* bytes at 0x14, good_crc whether the stored checksum is the right one
MkImage(pids, item_field, ds, good_crc) ==
    MkFile(<<40, 1, 0, 0>> \o <<0, 0, 0, 0>> \o item_field
           \o <<1, 0, 0, 0>> \o <<104, 1, 0, 0>> \o <<0, 0, 0, 0>>
           \o PadTo(pids, PID_MAX_LEN)
           \o DescriptorTable(ds) \o DataRegion(ds), good_crc)

\* c repeated n times
Repeat(c, n) == SubSeq([k \in 1..n |-> c], 1, n)

\* "<a/>\n", and a section /a.xml that holds it
XmlData == <<60, 97, 47, 62, 10>>
SecXml ==
    [item_crc |-> <<4660, 22136>>, stored_offset |-> <<0, 7>>,
     path |-> <<102, 105, 108, 101, 58, 47, 97, 46, 120, 109, 108>>,
     label |-> <<65>>, data |-> XmlData]

\* a manifest section /signinfo: a 60-byte header "V1 | SIGNINFO\n" padded
\* with "=", then one line for /a.xml (with the hash of its payload) and
\* one line for /signinfo itself
ManifestData ==
    <<86, 49, 32, 124, 32, 83, 73, 71, 78, 73, 78, 70, 79, 10>>
    \o Repeat(61, 46)
    \o sha256_hexdigest(XmlData) \o <<32, 47, 97, 46, 120, 109, 108, 10>>
    \o Repeat(48, 64)
    \o <<32, 47, 115, 105, 103, 110, 105, 110, 102, 111, 10>>
SecManifest ==
    [item_crc |-> <<1, 2>>, stored_offset |-> <<0, 0>>,
     path |-> <<102, 105, 108, 101, 58, 47, 115, 105, 103, 110, 105, 110,
                102, 111>>,
     label |-> <<>>, data |-> ManifestData]

\* a manifest section smaller than the 60-byte header: "sig-small!"
SecSmallManifest ==
    [item_crc |-> <<0, 0>>, stored_offset |-> <<0, 0>>,
     path |-> <<102, 105, 108, 101, 58, 47, 115, 105, 103, 110, 105, 110,
                102, 111>>,
     label |-> <<>>,
     data |-> <<115, 105, 103, 45, 115, 109, 97, 108, 108, 33>>]

\* /b.sh holding "echo 1"
SecShell ==
    [item_crc |-> <<0, 9>>, stored_offset |-> <<0, 0>>,
     path |-> <<102, 105, 108, 101, 58, 47, 98, 46, 115, 104>>,
     label |-> <<>>, data |-> <<101, 99, 104, 111, 32, 49>>]

\* /f holding three bytes
SecFlag ==
    [item_crc |-> <<0, 3>>, stored_offset |-> <<0, 0>>,
     path |-> <<102, 105, 108, 101, 58, 47, 102>>,
     label |-> <<>>, data |-> <<1, 2, 3>>]

\* /t.txt holding "hello\nworld\n"
SecText ==
    [item_crc |-> <<0, 4>>, stored_offset |-> <<0, 0>>,
     path |-> <<102, 105, 108, 101, 58, 47, 116, 46, 116, 120, 116>>,
     label |-> <<>>,
     data |-> <<104, 101, 108, 108, 111, 10, 119, 111, 114, 108, 100, 10>>]

\* /c.xml holding "<" 0xFF 0xFE ">\n", which is not UTF-8
SecBadXml ==
    [item_crc |-> <<0, 5>>, stored_offset |-> <<0, 0>>,
     path |-> <<102, 105, 108, 101, 58, 47, 99, 46, 120, 109, 108>>,
     label |-> <<>>, data |-> <<60, 255, 254, 62, 10>>]

\* /signinfo.old holding "old-sig!": a second section with the marker
SecOldManifest ==
    [item_crc |-> <<0, 6>>, stored_offset |-> <<0, 0>>,
     path |-> <<102, 105, 108, 101, 58, 47, 115, 105, 103, 110, 105, 110, 102, 111, 46, 111, 108, 100>>,
     label |-> <<>>, data |-> <<111, 108, 100, 45, 115, 105, 103, 33>>]

\* /x.sh holding "#!"
SecTinyShell ==
    [item_crc |-> <<0, 7>>, stored_offset |-> <<0, 0>>,
     path |-> <<102, 105, 108, 101, 58, 47, 120, 46, 115, 104>>,
     label |-> <<>>, data |-> <<35, 33>>]

\* /blob holding six bytes that are not text
SecBlob ==
    [item_crc |-> <<0, 8>>, stored_offset |-> <<0, 0>>,
     path |-> <<102, 105, 108, 101, 58, 47, 98, 108, 111, 98>>,
     label |-> <<>>, data |-> <<1, 200, 3, 4, 5, 6>>]

\* /y.sh holding "#" 0xFF "\n", which is not UTF-8
SecBadShell ==
    [item_crc |-> <<0, 10>>, stored_offset |-> <<0, 0>>,
     path |-> <<102, 105, 108, 101, 58, 47, 121, 46, 115, 104>>,
     label |-> <<>>, data |-> <<35, 255, 10>>]

\* the first 30 bytes of a manifest: "V1 | SIGNINFO\n" and sixteen "="
SecManifestStart ==
    [item_crc |-> <<0, 11>>, stored_offset |-> <<0, 0>>,
     path |-> <<102, 105, 108, 101, 58, 47, 115, 105, 103, 110, 105, 110, 102, 111>>,
     label |-> <<>>,
     data |-> <<86, 49, 32, 124, 32, 83, 73, 71, 78, 73, 78, 70, 79, 10>>
              \o Repeat(61, 16)]

\* "A|B|"
PidsAB == <<65, 124, 66, 124>>

\* an image with an XML section and a full manifest, checksum right
ImgMain == MkImage(PidsAB, <<2, 0, 0, 0>>, <<SecXml, SecManifest>>, TRUE)
\* "P||" and 257 "Q": a window with no null byte and an empty fragment
PidsFull == <<80, 124, 124>> \o Repeat(81, PID_MAX_LEN - 3)

\* an image whose manifest is 10 bytes and is followed by three more
\* sections, the last with the marker in its path, checksum wrong
ImgSmall ==
    MkImage(PidsAB, <<4, 0, 0, 0>>,
            <<SecSmallManifest, SecShell, SecBadXml, SecOldManifest>>, FALSE)
\* an image with no manifest, checksum right
ImgPlain == MkImage(PidsAB, <<2, 0, 0, 0>>, <<SecFlag, SecText>>, TRUE)
\* ImgPlain cut two bytes into its first payload
ImgTruncated == Slice(ImgPlain, 0, SECT_DESC_START + 2 * SECT_DESC_SIZE + 2)
\* ImgPlain cut twelve bytes into its second descriptor
ImgCutTable == Slice(ImgPlain, 0, SECT_DESC_START + SECT_DESC_SIZE + 12)
\* the first 40 bytes of an image with no section: the file ends four
\* bytes into the identifier window
ImgCutHeader == Slice(MkImage(PidsAB, <<0, 0, 0, 0>>, <<>>, TRUE), 0, 40)
\* an image with a full identifier window, an item field of 4 with the
\* higher bytes set, and a manifest whose descriptor says 70000 bytes of
\* which the file holds 30
ImgOdd ==
    SliceAssign(MkImage(PidsFull, <<4, 1, 2, 3>>,
                        <<SecTinyShell, SecBlob, SecBadShell, SecManifestStart>>,
                        FALSE),
                SECT_DESC_START + 3 * SECT_DESC_SIZE + 8,
                SECT_DESC_START + 3 * SECT_DESC_SIZE + 12, <<112, 17, 1, 0>>)
\* a file that does not start with the magic
ImgBadMagic == <<88, 88, 88, 88>> \o Slice(ImgPlain, 4, 40)
\* a file of three bytes, "HWN"
ImgShort == <<72, 87, 78>>

Files ==
    {ImgMain, ImgSmall, ImgPlain, ImgTruncated, ImgCutTable, ImgCutHeader,
     ImgOdd, ImgBadMagic, ImgShort}

\* ------------------------------------------------------------------------
\* Inputs of the calls
\* ------------------------------------------------------------------------
\* the longest sequence of calls explored after the image is opened
MaxOps == 2

\* ["X", "YZ"]; one identifier of 259 characters (260 bytes encoded); one
\* of 260 characters (261 bytes encoded); ["", "a|b"]
IdLists ==
    { <<<<88>>, <<89, 90>>>>,
      <<Repeat(65, PID_MAX_LEN - 1)>>,
      <<Repeat(65, PID_MAX_LEN)>>,
      <<<<>>, <<97, 124, 98>>>> }

SectionIndexes == {0, 1}

\* "Z"; "<b/>\n"; 300 bytes; one byte that is not UTF-8
Payloads == { <<90>>, <<60, 98, 47, 62, 10>>, Repeat(66, 300), <<255>> }

\* how the file write of save ends: it succeeds, open() raises and the file
\* is untouched, or the write raises after open() has emptied the file
WriteOutcomes == {"ok", "open fails", "write fails"}

\* ------------------------------------------------------------------------
\* The editing session: one HWNPFirmware object and the output file
\* ------------------------------------------------------------------------
VARIABLES
    file,     \* the bytes of the file the editor was opened on
    fw,       \* the HWNPFirmware object: raw, header fields, sections, ...
    written,  \* the bytes of the output file
    last,     \* the last call: its name, arguments and outcome
    nops      \* the number of calls made

vars == <<file, fw, written, last, nops>>

Call(op, idx, arg, err) == [op |-> op, idx |-> idx, arg |-> arg, err |-> err]

\* HWNPFirmware.__init__ (lines 73-78) on one of the files
Opened(image) ==
    /\ fw = image
    /\ last = Call("open", 0, <<>>, image.err)

Init ==
    /\ file \in Files
    /\ Opened(Parse(file))
    /\ written = <<>>
    /\ nops = 0

CanCall == fw.err = "" /\ nops < MaxOps

\* the effect of a call of the mutation engine that ended as r = [err, fw]
Returned(op, idx, arg, r) ==
    /\ fw' = r.fw
    /\ last' = Call(op, idx, arg, r.err)
    /\ nops' = nops + 1
    /\ UNCHANGED <<file, written>>

SetProductIds(ids) ==
    /\ CanCall
    /\ Returned("set_product_ids", 0, ids, set_product_ids(fw, ids))

SetSectionData(idx, new_data) ==
    /\ CanCall
    /\ Returned("set_section_data", idx, new_data,
                set_section_data(fw, idx, new_data))

\* HWNPFirmware.save (lines 242-247): saved is the object after
\* fix_signinfo and recalculate_crc; the file then gets its buffer
Saved(saved, outcome) ==
    /\ fw' = saved
    /\ written' = IF outcome = "ok" THEN saved.raw
                  ELSE IF outcome = "open fails" THEN written
                  ELSE <<>>
    /\ last' = Call("save", 0, <<>>, IF outcome = "ok" THEN "" ELSE "OSError")
    /\ nops' = nops + 1
    /\ UNCHANGED file

Save(outcome) ==
    /\ CanCall
    /\ Saved(save_transform(fw), outcome)

Next ==
    \/ \E ids \in IdLists : SetProductIds(ids)
    \/ \E idx \in SectionIndexes, d \in Payloads : SetSectionData(idx, d)
    \/ \E o \in WriteOutcomes : Save(o)

Spec == Init /\ [][Next]_vars


\* ------------------------------------------------------------------------
\* Properties of the editing session
\* ------------------------------------------------------------------------
\* the stored checksum: the little-endian 32-bit value at offset 0x08
StoredCrc(buf) == UnpackLE32(Slice(buf, 8, 12))
\* the CRC-32 of the buffer from offset 0x0C to its end
BufferCrc(buf) == crc32(SliceFrom(buf, 12))
\* the buffer bytes of the slot of a section
SlotBytes(buf, sec) == Slice(buf, sec.data_offset, sec.data_offset + sec.data_size)
\* the last call was a save that returned
SaveReturned == last.op = "save" /\ last.err = ""
\* this step is a call of op
Calls(op) == nops' = nops + 1 /\ last'.op = op

\* C1: after save returns, whatever calls came before it, the value stored
\* at offset 0x08 is the CRC-32 of the buffer from 0x0C to its end, the
\* cached head_crc is that value, and crc_valid is true.
C1_SaveStoresChecksum ==
    SaveReturned =>
        /\ StoredCrc(fw.raw) = BufferCrc(fw.raw)
        /\ fw.head_crc = StoredCrc(fw.raw)
        /\ fw.crc_valid

\* C1 witness: a save has returned after set_product_ids(["X", "YZ"]) on an
\* image that was opened with a wrong stored checksum.
C1_Witness ==
    /\ SaveReturned
    /\ ~Parse(file).crc_valid
    /\ fw.product_ids = <<<<88>>, <<89, 90>>>>
    /\ StoredCrc(fw.raw) = BufferCrc(fw.raw)

\* C2: every save patches the manifest, then computes the checksum, then
\* writes: past the checksum field the written file is the buffer the
\* patcher left (nothing is modified once the checksum is computed), the
\* written bytes are the buffer, and the checksum in the written file is
\* the CRC-32 of the written bytes from 0x0C on.
C2_SaveOrder ==
    [][(Calls("save") /\ last'.err = "") =>
          /\ written' = fw'.raw
          /\ SliceFrom(written', 12) = SliceFrom(fix_signinfo(fw).raw, 12)
          /\ StoredCrc(written') = BufferCrc(written')]_vars

\* C2 witness: a save of the image with the full manifest has written a
\* file that differs from the file opened (the manifest was patched).
C2_Witness ==
    /\ SaveReturned
    /\ file = ImgMain
    /\ written = fw.raw
    /\ written # file
    /\ StoredCrc(written) = BufferCrc(written)

\* C3: in every state of an image, crc_valid is true exactly when the
\* checksum stored at 0x08 of the current buffer is the CRC-32 of the
\* current buffer from 0x0C on.
C3_FlagReflectsBuffer ==
    fw.err = "" => (fw.crc_valid <=> StoredCrc(fw.raw) = BufferCrc(fw.raw))

\* C4: set_section_data(i, b) with len(b) <= data_size leaves section i's
\* payload equal to b followed by zero bytes up to data_size, writes those
\* bytes to the buffer at [data_offset, data_offset + data_size), and leaves
\* the slot bytes and the payload of every other section as they were.
C4_SetSectionPayloadFrame ==
    [][(/\ Calls("set_section_data")
        /\ ListIndex(Len(fw.sections), last'.idx) # 0
        /\ Len(last'.arg)
              <= fw.sections[ListIndex(Len(fw.sections), last'.idx)].data_size)
       => LET i == ListIndex(Len(fw.sections), last'.idx)
              want == Padded(last'.arg, fw.sections[i].data_size)
          IN  /\ last'.err = ""
              /\ Len(fw'.sections[i].data) = fw.sections[i].data_size
              /\ fw'.sections[i].data = want
              /\ SlotBytes(fw'.raw, fw.sections[i]) = want
              /\ \A j \in 1..Len(fw.sections) :
                    j # i =>
                      /\ fw'.sections[j].data = fw.sections[j].data
                      /\ SlotBytes(fw'.raw, fw.sections[j])
                            = SlotBytes(fw.raw, fw.sections[j])]_vars

\* C5: set_section_data(i, b) with len(b) > data_size raises ValueError and
\* leaves the whole image (buffer, payloads, text views, cached fields) and
\* the output file as they were.
C5_OversizeRejected ==
    [][(/\ Calls("set_section_data")
        /\ ListIndex(Len(fw.sections), last'.idx) # 0
        /\ Len(last'.arg)
              > fw.sections[ListIndex(Len(fw.sections), last'.idx)].data_size)
       => /\ last'.err = "ValueError"
          /\ fw' = fw
          /\ written' = written]_vars

\* C5 witness: a payload longer than the section was refused.
C5_Witness ==
    /\ last.op = "set_section_data"
    /\ last.err = "ValueError"
    /\ Len(last.arg) > fw.sections[last.idx + 1].data_size


\* the list a parser reads from the identifier window of the buffer
WindowIds(buf) == ParseProductIds(buf)

\* C6 as stated: for every list whose encoding fits the 260-byte window,
\* set_product_ids succeeds and decoding the window gives the list back.
C6_IdsRoundTripAnyList ==
    (last.op = "set_product_ids" /\ Len(EncodeIds(last.arg)) <= PID_MAX_LEN)
    => (last.err = "" /\ WindowIds(fw.raw) = last.arg)

\* an identifier the window can carry: not empty, ASCII, and holding
\* neither the delimiter "|" nor a null character
PlainId(id) ==
    /\ id # <<>>
    /\ \A k \in 1..Len(id) : id[k] < 128 /\ id[k] # Pipe /\ id[k] # 0

\* C6: for every list of non-empty ASCII identifiers that hold neither "|"
\* nor a null character, and whose encoding (the identifiers joined by "|",
\* plus the trailing "|") is at most 260 bytes, set_product_ids succeeds and
\* decoding the written window by the parser's rule gives the list back, in
\* order.
C6_PlainIdsRoundTrip ==
    (/\ last.op = "set_product_ids"
     /\ \A k \in 1..Len(last.arg) : PlainId(last.arg[k])
     /\ Len(EncodeIds(last.arg)) <= PID_MAX_LEN)
    => (last.err = "" /\ WindowIds(fw.raw) = last.arg)

\* C6 witness: ["X", "YZ"] was set over the window that held "A|B|", and
\* the window decodes to it.
C6_Witness ==
    /\ last.op = "set_product_ids"
    /\ last.err = ""
    /\ last.arg = <<<<88>>, <<89, 90>>>>
    /\ WindowIds(fw.raw) = last.arg

\* C7: set_product_ids with a list whose encoding is exactly 260 bytes
\* succeeds; with one whose encoding is 261 bytes it raises ValueError and
\* the image (window, rest of the buffer, cached list) is as before the
\* call.
C7_CapacityBoundary ==
    [][Calls("set_product_ids") =>
          /\ Len(EncodeIds(last'.arg)) = PID_MAX_LEN
                => (last'.err = "" /\ fw'.product_ids = last'.arg)
          /\ Len(EncodeIds(last'.arg)) = PID_MAX_LEN + 1
                => (last'.err = "ValueError" /\ fw' = fw)]_vars

\* C7 witness: a list encoded in 261 bytes was refused.
C7_Witness ==
    /\ last.op = "set_product_ids"
    /\ last.err = "ValueError"
    /\ Len(EncodeIds(last.arg)) = PID_MAX_LEN + 1

\* the section the Integrity Patcher works on: the first section whose path
\* contains "signinfo"
HasManifest == fw.err = "" /\ SigninfoIndex(fw.sections) # 0
Manifest == fw.sections[SigninfoIndex(fw.sections)]

\* C8: after every save of an image with a manifest section, the first 60
\* bytes of that section's payload (all of it when it is shorter) are zero,
\* in the buffer and in the section's in-memory payload.
C8_ManifestHeaderZeroed ==
    (last.op = "save" /\ HasManifest) =>
        /\ \A k \in 1..Min(60, Manifest.data_size) :
              fw.raw[Manifest.data_offset + k] = 0
        /\ \A k \in 1..Min(60, Len(Manifest.data)) : Manifest.data[k] = 0

\* C8 witness: a save of the image whose manifest has 207 bytes, with no
\* mutation before it.
C8_Witness ==
    /\ last.op = "save"
    /\ nops = 1
    /\ HasManifest
    /\ Manifest.data_size > 60
    /\ SlotBytes(file, Manifest)[1] # 0

\* the manifest text as the buffer holds it, and its hash lines
ManifestText == AsciiDecodeReplace(SlotBytes(fw.raw, Manifest))
ManifestLines == FindLines(ManifestText, 0)
\* the 1-based index of the section a hash line names, or 0
LineSection(line) == SectionByPath(fw.sections, Strip(line.path))
\* the 64 characters of the line's hash are the SHA-256 of the buffer bytes
\* of the section it names
LineHashCurrent(line) ==
    Slice(ManifestText, line.start, line.start + 64)
        = sha256_hexdigest(SlotBytes(fw.raw, fw.sections[LineSection(line)]))

\* C9 as stated: after save, every hash line of the manifest whose path is
\* the path of a section holds the SHA-256 of that section's payload as the
\* buffer holds it after the save, the manifest section itself included.
C9_EveryLineHashCurrent ==
    (SaveReturned /\ HasManifest) =>
        \A n \in 1..Len(ManifestLines) :
            LineSection(ManifestLines[n]) # 0
                => LineHashCurrent(ManifestLines[n])

\* C9: after save, every hash line of the manifest whose path is the path
\* of a section other than the manifest section itself holds the SHA-256 of
\* that section's payload as the buffer holds it after the save, also when
\* set_section_data changed that section before the save.
C9_OtherSectionLineHashCurrent ==
    (SaveReturned /\ HasManifest) =>
        \A n \in 1..Len(ManifestLines) :
            (/\ LineSection(ManifestLines[n]) # 0
             /\ LineSection(ManifestLines[n]) # SigninfoIndex(fw.sections))
                => LineHashCurrent(ManifestLines[n])

\* C9 witness: /a.xml was given the payload "<b/>\n" and the image saved;
\* the manifest's line for /a.xml holds the hash of the new payload.
C9_Witness ==
    /\ SaveReturned
    /\ HasManifest
    /\ fw.sections[1].data = <<60, 98, 47, 62, 10>>
    /\ Len(ManifestLines) = 2
    /\ LineSection(ManifestLines[1]) = 1
    /\ LineHashCurrent(ManifestLines[1])

\* the file opened holds the whole of the descriptor table its header
\* announces
TableWhole ==
    Len(file) >= SECT_DESC_START + fw.header.item_num * SECT_DESC_SIZE

\* C10: for a file that holds its whole descriptor table, parsing the
\* bytes save wrote gives the section count of the first parse and, for
\* every section, its data offset, data size, path and label, though the
\* bytes written differ from the bytes opened.
C10_StructureRoundTrip ==
    SaveReturned /\ TableWhole =>
        /\ Parse(written).err = ""
        /\ Len(Parse(written).sections) = Len(Parse(file).sections)
        /\ \A k \in 1..Len(Parse(file).sections) :
              /\ Parse(written).sections[k].data_offset
                    = Parse(file).sections[k].data_offset
              /\ Parse(written).sections[k].data_size
                    = Parse(file).sections[k].data_size
              /\ Parse(written).sections[k].path = Parse(file).sections[k].path
              /\ Parse(written).sections[k].label
                    = Parse(file).sections[k].label

\* C10 witness: a save right after the parse wrote bytes that differ from
\* the file opened and that parse to two sections.
C10_Witness ==
    /\ SaveReturned
    /\ nops = 1
    /\ written # file
    /\ Len(Parse(written).sections) = 2

\* the file opened does not start with the four bytes of the magic
BadMagic == Slice(file, 0, 4) # HWNP_MAGIC

\* C11: opening a file whose first four bytes are not "HWNP", a file
\* shorter than four bytes included, raises ValueError; no header field,
\* identifier or section has been decoded, the buffer holds the bytes of
\* the file unchanged, and no call can follow.
C11_BadMagicRejected ==
    BadMagic =>
        /\ last = Call("open", 0, <<>>, "ValueError")
        /\ fw.raw = file
        /\ fw.header.item_num = 0
        /\ fw.header.payload_size = <<0, 0>>
        /\ fw.product_ids = <<>>
        /\ fw.sections = <<>>
        /\ nops = 0

\* C11 witness: a file of fewer than four bytes was refused with
\* ValueError.
C11_Witness ==
    /\ Len(file) < 4
    /\ last.op = "open"
    /\ last.err = "ValueError"
    /\ fw.raw = file

\* the size field of descriptor k (from 1) in the file that was opened
FileSizeField(k) ==
    ToInt(UnpackLE32(Slice(file, SECT_DESC_START + (k - 1) * SECT_DESC_SIZE + 8,
                           SECT_DESC_START + (k - 1) * SECT_DESC_SIZE + 12)))

\* C12: in every state, each section's data_size is the size field its
\* descriptor held when the file was parsed, and both the section's
\* payload in memory and the buffer slice [data_offset, data_offset +
\* data_size) are exactly data_size bytes long, also when the file ended
\* before data_offset + data_size.
C12_PayloadLengthIsDataSize ==
    \A k \in 1..Len(fw.sections) :
        /\ fw.sections[k].data_size = FileSizeField(k)
        /\ Len(fw.sections[k].data) = fw.sections[k].data_size
        /\ Len(SlotBytes(fw.raw, fw.sections[k])) = fw.sections[k].data_size

\* C13: in every state, each section's payload in memory (section.data)
\* is the bytes the buffer holds at [data_offset, data_offset + data_size).
C13_PayloadMirrorsBuffer ==
    \A k \in 1..Len(fw.sections) :
        fw.sections[k].data = SlotBytes(fw.raw, fw.sections[k])

\* the sizes of the first n sections, each rounded up to a multiple of 4
RECURSIVE PaddedSizes(_, _)
PaddedSizes(sections, n) ==
    IF n = 0 THEN 0
    ELSE PaddedSizes(sections, n - 1) + 4 * ((sections[n].data_size + 3) \div 4)

\* the file with the stored-offset field of descriptor k (from 1) set to
\* the bytes v
WithStoredOffset(k, v) ==
    SliceAssign(file, SECT_DESC_START + (k - 1) * SECT_DESC_SIZE + 4,
                SECT_DESC_START + (k - 1) * SECT_DESC_SIZE + 8, v)

\* the data offsets of the sections of an image
DataOffsets(image) ==
    [k \in 1..Len(image.sections) |-> image.sections[k].data_offset]

\* C14: the data offset of every section is 0x128 + item_count * 360 plus
\* the sizes of the sections before it, each rounded up to a multiple of
\* 4; and a file that differs only in the stored-offset field of one
\* descriptor parses to the same data offsets.
C14_DataOffsetComputed ==
    /\ \A k \in 1..Len(fw.sections) :
          fw.sections[k].data_offset
              = SECT_DESC_START + fw.header.item_num * SECT_DESC_SIZE
                + PaddedSizes(fw.sections, k - 1)
    /\ nops = 0 /\ fw.err = "" =>
          \A k \in 1..Len(fw.sections) :
              DataOffsets(Parse(WithStoredOffset(k, <<239, 190, 173, 222>>)))
                  = DataOffsets(fw)

\* C14 witness: a parsed image whose second section follows a section of
\* a size that is not a multiple of 4 and whose stored offset, 7, is not
\* its data offset.
C14_Witness ==
    /\ fw.err = ""
    /\ Len(fw.sections) >= 2
    /\ fw.sections[1].data_size % 4 # 0
    /\ fw.sections[1].stored_offset = <<0, 7>>
    /\ fw.sections[1].data_offset # 7
    /\ fw.sections[2].data_offset > fw.sections[1].data_offset
                                      + fw.sections[1].data_size

\* byte i (from 0) of the buffer may be changed by save: it lies in the
\* checksum field or in the slot of the manifest section
SaveMayWrite(i) ==
    \/ i \in 8..11
    \/ /\ HasManifest
       /\ i >= Manifest.data_offset
       /\ i < Manifest.data_offset + Manifest.data_size

\* C15: a save leaves the length of the buffer as it was and changes no
\* byte outside the checksum field 0x08..0x0B and the slot of the manifest
\* section (outside the checksum field alone when no section path holds
\* the marker), whatever the manifest's size, sizes below 60 included.
C15_SaveFrame ==
    [][Calls("save") =>
          /\ Len(fw'.raw) = Len(fw.raw)
          /\ \A i \in 0..(Len(fw.raw) - 1) :
                i < Len(fw'.raw) /\ fw'.raw[i + 1] # fw.raw[i + 1]
                    => SaveMayWrite(i)]_vars

\* the bytes of buf in the range of the descriptor table
TableBytes(buf) ==
    Slice(buf, SECT_DESC_START,
          SECT_DESC_START + fw.header.item_num * SECT_DESC_SIZE)

\* the checksum field of descriptor k (from 1) in the file that was opened
FileCrcField(k) ==
    UnpackLE32(Slice(file, SECT_DESC_START + (k - 1) * SECT_DESC_SIZE,
                     SECT_DESC_START + (k - 1) * SECT_DESC_SIZE + 4))

\* C16: in every state, each section's item_crc is the checksum field its
\* descriptor held in the file, and the bytes of the buffer in the range
\* of the descriptor table [0x128, 0x128 + item_count * 360) are those of
\* the file.
C16_DescriptorsKept ==
    /\ \A k \in 1..Len(fw.sections) : fw.sections[k].item_crc = FileCrcField(k)
    /\ TableBytes(fw.raw) = TableBytes(file)

\* section k of the object is an '.xml' section whose payload is not
\* valid UTF-8
BadXmlSection(k) ==
    /\ EndsWith(fw.sections[k].path, ExtXml)
    /\ Utf8Decode(fw.sections[k].data) = <<>>

\* C17 as stated: right after the parse, a section whose path ends with
\* '.xml' and whose payload is not valid UTF-8 has the classification
\* 'xml' and no decoded text.
C17_BadXmlStaysXml ==
    nops = 0 =>
        \A k \in 1..Len(fw.sections) :
            BadXmlSection(k) =>
                /\ fw.sections[k].content_type = "xml"
                /\ fw.sections[k].text_content = <<>>

\* C17 amended: right after the parse, a section whose path ends with
\* '.xml' and whose payload is not valid UTF-8 has the classification
\* 'binary' and no decoded text.
C17_BadXmlIsBinary ==
    nops = 0 =>
        \A k \in 1..Len(fw.sections) :
            BadXmlSection(k) =>
                /\ fw.sections[k].content_type = "binary"
                /\ fw.sections[k].text_content = <<>>

\* C17 witness: the parse returned an object with an '.xml' section whose
\* payload holds the byte 0xFF; it is classified 'binary'.
C17_Witness ==
    /\ nops = 0
    /\ \E k \in 1..Len(fw.sections) :
          /\ BadXmlSection(k)
          /\ \E i \in 1..Len(fw.sections[k].data) : fw.sections[k].data[i] = 255
          /\ fw.sections[k].content_type = "binary"

\* text is n values separated by single spaces, value j being "0x" and the
\* two uppercase hexadecimal digits of byte j of d
IsHexList(text, d, n) ==
    /\ Len(d) = n
    /\ Len(text) = IF n = 0 THEN 0 ELSE 5 * n - 1
    /\ \A j \in 1..n :
          /\ SubSeq(text, 5 * j - 4, 5 * j - 1)
                = <<48, 120, HexDigitsUpper[(d[j] \div 16) + 1],
                    HexDigitsUpper[(d[j] % 16) + 1]>>
          /\ j < n => text[5 * j] = 32

\* C18: right after the parse, a section of data_size <= 4 whose path
\* ends with neither '.sh' nor '.xml' has the classification 'flag', and
\* its text is its bytes as data_size hexadecimal byte values separated
\* by spaces (three values for a section of size 3).
C18_FlagRendersEveryByte ==
    nops = 0 =>
        \A k \in 1..Len(fw.sections) :
            /\ fw.sections[k].data_size <= 4
            /\ ~EndsWith(fw.sections[k].path, ExtSh)
            /\ ~EndsWith(fw.sections[k].path, ExtXml)
            => /\ fw.sections[k].content_type = "flag"
               /\ Len(fw.sections[k].text_content) = 1
               /\ IsHexList(fw.sections[k].text_content[1],
                            fw.sections[k].data, fw.sections[k].data_size)

\* the last call was a save whose file write failed
WriteFailed == last.op = "save" /\ last.err = "OSError"

\* C19: a save whose file write fails leaves the object transformed (the
\* stored checksum is the CRC-32 of the buffer from 0x0C on, the flag is
\* true, the first bytes of the manifest are zero), and a save called
\* next, with no call between, has the same bytes to write: its buffer is
\* the buffer the failed save had.
C19_RetryWritesSameBytes ==
    [][/\ Calls("save") /\ last'.err = "OSError" =>
             /\ fw'.crc_valid
             /\ StoredCrc(fw'.raw) = BufferCrc(fw'.raw)
             /\ HasManifest =>
                   \A i \in 1..Min(60, Manifest.data_size) :
                       fw'.raw[Manifest.data_offset + i] = 0
       /\ WriteFailed /\ Calls("save") => fw'.raw = fw.raw]_vars

\* the section a set_section_data call with index idx addresses
Target(idx) == ListIndex(Len(fw.sections), idx)

\* C20: a set_section_data call that writes at most data_size bytes that
\* are not valid UTF-8 into a section classified xml, shell or text
\* succeeds, leaves the zero-padded bytes in the section's payload and in
\* its slot of the buffer, and leaves the section without decoded text.
C20_UndecodableTextWithheld ==
    [][/\ Calls("set_section_data")
       /\ Target(last'.idx) # 0
       /\ fw.sections[Target(last'.idx)].content_type \in {"xml", "shell", "text"}
       /\ Len(last'.arg) <= fw.sections[Target(last'.idx)].data_size
       /\ Utf8Decode(last'.arg) = <<>>
       => /\ last'.err = ""
          /\ fw'.sections[Target(last'.idx)].data
                = Padded(last'.arg, fw.sections[Target(last'.idx)].data_size)
          /\ SlotBytes(fw'.raw, fw'.sections[Target(last'.idx)])
                = fw'.sections[Target(last'.idx)].data
          /\ fw'.sections[Target(last'.idx)].text_content = <<>>]_vars

\* byte b is 0, in 0x09..0x0D or in 0x20..0x7E
TextByte(b) == b = 0 \/ b \in 9..13 \/ b \in 32..126

\* the content type the ordered rules give a section, first match wins
RuleType(sec) ==
    IF EndsWith(sec.path, ExtSh)
    THEN IF Utf8Decode(sec.data) = <<>> THEN "binary" ELSE "shell"
    ELSE IF EndsWith(sec.path, ExtXml)
    THEN IF Utf8Decode(sec.data) = <<>> THEN "binary" ELSE "xml"
    ELSE IF sec.data_size <= 4 THEN "flag"
    ELSE IF sec.data_size < 65536
            /\ \A i \in 1..Len(sec.data) : TextByte(sec.data[i])
    THEN "text"
    ELSE "binary"

\* C21: right after the parse, the content type of every section is the
\* one the ordered rules give it (1: '.sh', shell, binary when the bytes
\* are not UTF-8; 2: '.xml', xml, same fallback; 3: data_size <= 4, flag;
\* 4: text when every byte is a text byte and data_size < 65536, else
\* binary), and no '.sh' or '.xml' section is flag or text.
C21_ClassifiedByOrderedRules ==
    nops = 0 =>
        \A k \in 1..Len(fw.sections) :
            /\ fw.sections[k].content_type = RuleType(fw.sections[k])
            /\ EndsWith(fw.sections[k].path, ExtSh)
                  \/ EndsWith(fw.sections[k].path, ExtXml)
               => fw.sections[k].content_type \notin {"flag", "text"}

\* C21 witness: the parse returned an image with a '.sh' section of two
\* bytes classified shell, a '.sh' section that is not UTF-8 classified
\* binary, a section of six non-text bytes classified binary, and a
\* section of text bytes whose data_size is 70000 classified binary.
C21_Witness ==
    /\ nops = 0
    /\ Len(fw.sections) = 4
    /\ EndsWith(fw.sections[1].path, ExtSh)
    /\ fw.sections[1].data_size = 2
    /\ fw.sections[1].content_type = "shell"
    /\ fw.sections[2].content_type = "binary"
    /\ EndsWith(fw.sections[3].path, ExtSh)
    /\ fw.sections[3].content_type = "binary"
    /\ fw.sections[4].data_size = 70000
    /\ \A i \in 1..Len(fw.sections[4].data) : TextByte(fw.sections[4].data[i])
    /\ fw.sections[4].content_type = "binary"

\* the identifier window 0x24..0x127 of buf
Window(buf) == Slice(buf, PID_OFFSET, PID_OFFSET + PID_MAX_LEN)

\* the window that holds the elements of ids joined by '|', one more '|',
\* and zero bytes up to its end
WindowOf(ids) ==
    Join(ids, Pipe) \o <<Pipe>>
    \o Zeros(PID_MAX_LEN - Len(Join(ids, Pipe)) - 1)

\* C22: a set_product_ids call that succeeds leaves the window holding
\* the list joined by '|' with one trailing '|' and zero bytes up to the
\* end of the window, leaves every byte outside the window as it was,
\* and keeps the length of the buffer.
C22_SetIdentifiersFrame ==
    [][Calls("set_product_ids") /\ last'.err = "" =>
          /\ Window(fw'.raw) = WindowOf(last'.arg)
          /\ Slice(fw'.raw, 0, PID_OFFSET) = Slice(fw.raw, 0, PID_OFFSET)
          /\ SliceFrom(fw'.raw, PID_OFFSET + PID_MAX_LEN)
                = SliceFrom(fw.raw, PID_OFFSET + PID_MAX_LEN)
          /\ Len(fw'.raw) = Len(fw.raw)]_vars

\* the bytes of the window w before its first null byte, all of w when it
\* holds none
BeforeNull(w) ==
    IF \E k \in 1..Len(w) : w[k] = 0
    THEN SubSeq(w, 1, MinOf({k \in 1..Len(w) : w[k] = 0}) - 1)
    ELSE w

\* the positions that bound the fragments of str: before its first
\* character, after its last, and every '|'
Cuts(str) == {0, Len(str) + 1} \cup {k \in 1..Len(str) : str[k] = Pipe}

\* the fragment of str that starts after the cut p
FragmentAfter(str, p) ==
    SubSeq(str, p + 1, MinOf({q \in Cuts(str) : q > p}) - 1)

\* the non-empty fragments of str between '|', in order
Fragments(str) ==
    LET starts == SortedSeq({p \in Cuts(str) :
                                p <= Len(str) /\ (p + 1) \notin Cuts(str)})
    IN  [i \in 1..Len(starts) |-> FragmentAfter(str, starts[i])]

\* C23: right after the parse, the identifier list is the non-empty
\* fragments, in order, of the bytes from 0x24 up to the first null byte
\* of the window 0x24..0x127, or of the whole window when it holds no
\* null byte; no byte from 0x128 on is part of it.
C23_IdentifiersDecoded ==
    nops = 0 /\ fw.err = "" =>
        fw.product_ids = Fragments(BeforeNull(Window(file)))

\* C23 witness: the parse returned an image whose window holds no null
\* byte and whose byte at 0x128 is not null either; the list has two
\* identifiers, the second of 257 characters, the empty fragment between
\* two '|' being dropped.
C23_Witness ==
    /\ nops = 0
    /\ fw.err = ""
    /\ Len(Window(file)) = PID_MAX_LEN
    /\ \A k \in 1..PID_MAX_LEN : Window(file)[k] # 0
    /\ file[PID_OFFSET + PID_MAX_LEN + 1] # 0
    /\ Len(fw.product_ids) = 2
    /\ Len(fw.product_ids[2]) = PID_MAX_LEN - 3


\* the three higher bytes of the item-count field that are tried
ItemHighBytes == {<<0, 0, 0>>, <<1, 0, 0>>, <<255, 255, 255>>}

\* the file opened with the three higher bytes of the field at 0x14 set
\* to h
WithItemHigh(h) == SliceAssign(file, 21, 24, h)

\* C24: for a file with the magic that holds the descriptor table its low
\* count byte announces, parse succeeds with as many sections as the byte
\* at 0x14 says, whatever the three bytes after it hold; the first section
\* lies at 0x128 + count * 360, each section's path is the one its
\* descriptor at 0x128 + i * 360 holds, and a file that differs only in
\* those three bytes parses to the same sections.
C24_CountIsLowByte ==
    ~BadMagic /\ Len(file) >= 32
        /\ Len(file) >= SECT_DESC_START + file[21] * SECT_DESC_SIZE =>
        /\ fw.err = ""
        /\ Len(fw.sections) = file[21]
        /\ fw.header.item_num = file[21]
        /\ Len(fw.sections) > 0 =>
              fw.sections[1].data_offset
                  = SECT_DESC_START + file[21] * SECT_DESC_SIZE
        /\ nops = 0 =>
              /\ \A k \in 1..Len(fw.sections) :
                    fw.sections[k].path
                        = ParseSection(file, k - 1, 0).path
              /\ \A h \in ItemHighBytes :
                    /\ Parse(WithItemHigh(h)).err = ""
                    /\ Parse(WithItemHigh(h)).sections = fw.sections

\* C24 witness: a file whose count field holds 04 01 02 03 was parsed
\* without error into four sections, the first at 0x128 + 4 * 360.
C24_Witness ==
    /\ nops = 0
    /\ Slice(file, 20, 24) = <<4, 1, 2, 3>>
    /\ fw.err = ""
    /\ Len(fw.sections) = 4
    /\ fw.sections[1].data_offset = SECT_DESC_START + 4 * SECT_DESC_SIZE


\* offset i (from 0) of the manifest text lies in the 64-character hash
\* field of one of the lines whose path is the path of a section
InHashField(lines, i) ==
    \E n \in 1..Len(lines) :
        /\ SectionByPath(fw.sections, Strip(lines[n].path)) # 0
        /\ i \in lines[n].start..(lines[n].start + 63)

\* the manifest payload after of a save kept the length of the payload
\* before, and differs from it only in the first 60 bytes and in the hash
\* fields of the lines found in after
PatchedInPlace(before, after) ==
    /\ Len(after) = Len(before)
    /\ \A i \in 60..(Len(before) - 1) :
          (i < Len(after) /\ after[i + 1] # before[i + 1])
              => InHashField(FindLines(AsciiDecodeReplace(after), 0), i)

\* C25: a save of an image with a manifest section leaves the manifest
\* payload, in memory and in the buffer, as long as it was, and changes
\* none of its bytes beyond the first 60 but the 64 characters of the hash
\* of each line whose path is the path of a section.
C25_FixedWidthPatch ==
    [][Calls("save") /\ HasManifest =>
          /\ PatchedInPlace(Manifest.data,
                            fw'.sections[SigninfoIndex(fw.sections)].data)
          /\ PatchedInPlace(SlotBytes(fw.raw, Manifest),
                            SlotBytes(fw'.raw, Manifest))]_vars


\* C26: a save that follows a save, with no call between them, leaves the
\* buffer, the stored checksum and every section payload as the first save
\* left them, and, when both writes succeed, writes the bytes the first
\* one wrote.
C26_SaveIdempotent ==
    [][last.op = "save" /\ Calls("save") =>
          /\ fw'.raw = fw.raw
          /\ fw'.head_crc = fw.head_crc
          /\ \A k \in 1..Len(fw.sections) :
                fw'.sections[k].data = fw.sections[k].data
          /\ (last.err = "" /\ last'.err = "") => written' = written]_vars


\* new_data fits the section that index idx addresses
Fits(idx, new_data) ==
    Target(idx) # 0 /\ Len(new_data) <= fw.sections[Target(idx)].data_size

\* two images hold the same buffer and the same section payloads
SameBytes(x, y) ==
    /\ x.raw = y.raw
    /\ \A k \in 1..Len(x.sections) : x.sections[k].data = y.sections[k].data

\* the image after set_section_data(i, a) and then set_section_data(j, b)
SetThenSet(i, a, j, b) ==
    set_section_data(set_section_data(fw, i, a).fw, j, b).fw

\* the image after set_product_ids(ids) and then set_section_data(i, a),
\* and after the two calls in the other order
IdsThenSet(ids, i, a) == set_section_data(set_product_ids(fw, ids).fw, i, a).fw
SetThenIds(i, a, ids) == set_product_ids(set_section_data(fw, i, a).fw, ids).fw

\* C27: from every state, two set_section_data calls on different
\* sections with payloads that fit give the same buffer and the same
\* section payloads in either order, and so do a set_product_ids call
\* that succeeds and a set_section_data call whose payload fits.
C27_MutationsCommute ==
    fw.err = "" =>
        /\ \A i, j \in SectionIndexes, a, b \in Payloads :
              (Target(i) # Target(j) /\ Fits(i, a) /\ Fits(j, b))
                  => SameBytes(SetThenSet(i, a, j, b), SetThenSet(j, b, i, a))
        /\ \A ids \in IdLists, i \in SectionIndexes, a \in Payloads :
              (set_product_ids(fw, ids).err = "" /\ Fits(i, a))
                  => SameBytes(IdsThenSet(ids, i, a), SetThenIds(i, a, ids))


\* C28: in every state of a parsed image, every section's data offset is a
\* multiple of 4 and at least 0x128 + item_count * 360, the end of the
\* descriptor table, and each section starts at or after the end of the
\* slot of the section before it.
C28_SlotsOrderedDisjoint ==
    fw.err = "" =>
        /\ \A k \in 1..Len(fw.sections) :
              /\ fw.sections[k].data_offset % 4 = 0
              /\ fw.sections[k].data_offset
                     >= SECT_DESC_START + Len(fw.sections) * SECT_DESC_SIZE
              /\ fw.sections[k].data_offset >= PID_OFFSET + PID_MAX_LEN
        /\ \A k \in 1..(Len(fw.sections) - 1) :
              fw.sections[k + 1].data_offset
                  >= fw.sections[k].data_offset + fw.sections[k].data_size

\* C28 witness: a parsed image of four sections whose first three sizes,
\* 2, 6 and 3, are not multiples of 4, so that each next section starts
\* beyond the end of the slot before it.
C28_Witness ==
    /\ fw.err = ""
    /\ Len(fw.sections) = 4
    /\ \A k \in 1..3 :
          /\ fw.sections[k].data_size % 4 # 0
          /\ fw.sections[k + 1].data_offset
                 > fw.sections[k].data_offset + fw.sections[k].data_size


\* the cached identifier list is the list the parser's rule reads from the
\* window of the buffer
CacheCoherent(image) == image.product_ids = WindowIds(image.raw)

\* C29: the cached list is coherent with the window after the parse, and
\* every set_product_ids call, returning or raising, made on a coherent
\* image leaves a coherent image, whatever list it was given.
C29_CachedIdsCoherent ==
    /\ fw.err = "" => CacheCoherent(fw)
    /\ [][Calls("set_product_ids") /\ CacheCoherent(fw)
              => CacheCoherent(fw')]_vars


\* section k (from 1) is a section after the manifest section whose path
\* also contains "signinfo"
LaterMarked(k) ==
    /\ HasManifest
    /\ k > SigninfoIndex(fw.sections)
    /\ Contains(fw.sections[k].path, SigninfoMarker)

\* C30: a save leaves every section that follows the first section with
\* "signinfo" in its path and carries the marker too as it was: its
\* payload in memory and the bytes of its slot in the buffer.
C30_LaterManifestsUntouched ==
    [][Calls("save") =>
          \A k \in 1..Len(fw.sections) :
              LaterMarked(k) =>
                  /\ fw'.sections[k].data = fw.sections[k].data
                  /\ SlotBytes(fw'.raw, fw.sections[k])
                         = SlotBytes(fw.raw, fw.sections[k])]_vars

=============================================================================
